---- MODULE Spec2Model ----
(***************************************************************************)
(* The session layer (AuthProvider, auth.tsx) and the two panels that      *)
(* share its HTTP client (ChatPanel and DataPanel), as a state machine.    *)
(* One action per handler, effect or response continuation.  React state   *)
(* setters are modelled by the value they set; the useEffect on [token] is *)
(* a step of its own, taken after the render that follows a change of      *)
(* token, so other handlers and continuations may run between a setToken   *)
(* and the effect that mirrors it into the HTTP client.                    *)
(***************************************************************************)
EXTENDS Naturals, Sequences, FiniteSets

\* ------------------------------------------------------------------ values

\* null: no token, no user, no Authorization header.
Null == "null"
\* depsToken before the first run of the effect (the component is not mounted).
NotMounted == "notMounted"
\* The access tokens the backend may issue.
Tokens == {"tok1", "tok2"}
\* The /auth/me answer of the backend for a bearer token.
IdOf(t) == IF t = "tok1" THEN "alice" ELSE "bob"
Users == {IdOf(t) : t \in Tokens}

\* ------------------------------------------------------------------ bounds

\* login() calls awaiting the answer of POST /auth/login.
MaxLogin == 2
\* GET /auth/me requests in flight per bearer token.
MaxMe == 1
\* Length of the chat transcript.
MaxMsgs == 4
\* Uploads in flight that the mounted DataPanel started.
MaxUp == 2
\* Requests of each panel still in flight after the panel was unmounted.
MaxOrphan == 1

VARIABLES
  storage,      \* localStorage 'token'
  token,        \* useState token: the Credential
  user,         \* useState user: the Identity
  clientAuth,   \* the bearer token of the shared client's default Authorization
  depsToken,    \* the value of token the effect on [token] last ran for
  loginPending, \* login() calls suspended at the await of api.post('/auth/login')
  mePending,    \* api.get('/auth/me') in flight, by the bearer token they carry
  last,         \* history: the handler or continuation of the session that ran last
  userOps,      \* history: login() or logout() has been called by the application
  startToken,   \* history: what localStorage held when the provider was created
  startupMe,    \* history: identity requests issued while userOps is still FALSE
  solo,         \* history: the token of a login accepted from a clean LoggedOut
  tab,          \* App: useState tab, the panel that is mounted
  q,            \* ChatPanel: useState q, the input text
  loading,      \* ChatPanel: useState loading
  msgs,         \* ChatPanel: useState msgs
  chatLive,     \* /chat/ask requests in flight that the mounted ChatPanel sent
  chatOrphan,   \* /chat/ask requests in flight whose ChatPanel was unmounted
  file,         \* DataPanel: useState file
  status,       \* DataPanel: useState status
  upLive,       \* /vs/upload requests of the mounted DataPanel, in start order
  upOrphan      \* /vs/upload requests in flight whose DataPanel was unmounted

sessionVars == <<storage, token, user, clientAuth, depsToken, loginPending,
                 mePending>>
historyVars == <<last, userOps, startToken, startupMe, solo>>
chatVars == <<q, loading, msgs, chatLive>>
dataVars == <<file, status, upLive>>
panelVars == <<tab, chatVars, chatOrphan, dataVars, upOrphan>>
vars == <<sessionVars, historyVars, panelVars>>

\* The shared client's default Authorization after setAuth(t).
SetAuth(t) == IF t = Null THEN Null ELSE t

NoMe == [t \in Tokens |-> 0]
MeCount == mePending["tok1"] + mePending["tok2"]

\* No request of the session in flight and no effect of a token change pending.
Quiescent == loginPending = 0 /\ MeCount = 0 /\ depsToken = token

LoggedOut == token = Null /\ user = Null /\ storage = Null /\ clientAuth = Null
LoggedIn(t) == token = t /\ storage = t /\ clientAuth = t /\ user = IdOf(t)

\* ------------------------------------------------------------------ panels

\* The texts the input may hold: empty, blanks only, a question.
Inputs == {"", "  ", "hola"}
\* q.trim()
Trim(s) == IF s = "  " THEN "" ELSE s
\* const [file, setFile] = useState<File | null>(null): the files one may pick.
NoFile == "noFile"
Files == {"a.pdf", "b.pdf"}
\* `OK: ${data.filename} -> ${data.vector_store}`
OkStatus(f) == IF f = "a.pdf" THEN "OK: a.pdf" ELSE "OK: b.pdf"
ErrStatus == "Error: fallo el upload"
Uploading == "Subiendo..."

\* The headers each call passes itself: api.post("/chat/ask", {...}) none,
\* api.post("/vs/upload", fd, { headers: { "Content-Type": ... } }) one.
SendHeaders == {}
UploadHeaders == {"Content-Type"}

Msg(r, t) == [role |-> r, text |-> t]
\* `Error: ${e?.response?.data?.detail || "no se pudo obtener respuesta"}`
ErrText == "Error: no se pudo obtener respuesta"

\* The state a ChatPanel is mounted with.
ChatInit == q = "hola" /\ loading = FALSE /\ msgs = <<>> /\ chatLive = 0
\* The state a DataPanel is mounted with.
DataInit == file = NoFile /\ status = "" /\ upLive = <<>>

\* -------------------------------------------------------------------- Init

\* Init with the stored token not read back: the session always starts empty.
InitIgnoresStorage ==
  /\ storage \in Tokens \cup {Null}
  /\ token = Null
  /\ user = Null
  /\ clientAuth = Null
  /\ depsToken = NotMounted
  /\ loginPending = 0
  /\ mePending = NoMe
  /\ last = "none"
  /\ userOps = FALSE
  /\ startToken = storage
  /\ startupMe = 0
  /\ solo = Null
  /\ tab = "chat"
  /\ ChatInit
  /\ chatOrphan = 0
  /\ DataInit
  /\ upOrphan = 0

Init ==
  /\ storage \in Tokens \cup {Null}
  /\ token = storage
  /\ user = Null
  /\ clientAuth = Null
  /\ depsToken = NotMounted
  /\ loginPending = 0
  /\ mePending = NoMe
  /\ last = "none"
  /\ userOps = FALSE
  /\ startToken = storage
  /\ startupMe = 0
  /\ solo = Null
  /\ tab = "chat"
  /\ ChatInit
  /\ chatOrphan = 0
  /\ DataInit
  /\ upOrphan = 0

\* ----------------------------------------------------------------- session

\* useEffect(() => { setAuth(token || null); if (token) api.get('/auth/me')... }, [token])
Effect ==
  /\ depsToken # token
  /\ token # Null => mePending[token] < MaxMe
  /\ clientAuth' = SetAuth(token)
  /\ depsToken' = token
  /\ mePending' = IF token # Null
                  THEN [mePending EXCEPT ![token] = @ + 1]
                  ELSE mePending
  /\ startupMe' = IF token # Null /\ ~userOps /\ startupMe < 2
                  THEN startupMe + 1 ELSE startupMe
  /\ UNCHANGED <<storage, token, user, loginPending>>
  /\ UNCHANGED <<last, userOps, startToken, solo>>
  /\ UNCHANGED panelVars

\* login(username, password) up to its await: the POST /auth/login is sent.
LoginCall ==
  /\ depsToken # NotMounted
  /\ loginPending < MaxLogin
  /\ loginPending' = loginPending + 1
  /\ userOps' = TRUE
  /\ startupMe' = 0
  /\ solo' = Null
  /\ last' = "login"
  /\ UNCHANGED <<storage, token, user, clientAuth, depsToken, mePending>>
  /\ UNCHANGED startToken
  /\ UNCHANGED panelVars

\* LoginOk without its localStorage.setItem.
LoginOkNotPersisted(t) ==
  /\ loginPending > 0
  /\ storage' = storage
  /\ token' = t
  /\ loginPending' = loginPending - 1
  /\ last' = "loginResolved"
  /\ solo' = Null
  /\ UNCHANGED <<user, clientAuth, depsToken, mePending>>
  /\ UNCHANGED <<userOps, startToken, startupMe>>
  /\ UNCHANGED panelVars

\* The rest of login() after the backend answered { access_token: t }.
LoginOk(t) ==
  /\ loginPending > 0
  /\ storage' = t
  /\ token' = t
  /\ loginPending' = loginPending - 1
  /\ last' = "loginResolved"
  /\ solo' = IF /\ token = Null /\ user = Null /\ storage = Null
                /\ depsToken = Null /\ loginPending = 1 /\ MeCount = 0
             THEN t ELSE Null
  /\ UNCHANGED <<user, clientAuth, depsToken, mePending>>
  /\ UNCHANGED <<userOps, startToken, startupMe>>
  /\ UNCHANGED panelVars

\* LoginFail with a catch that logs out when the login request fails.
LoginFailLogsOut ==
  /\ loginPending > 0
  /\ loginPending' = loginPending - 1
  /\ last' = "loginRejected"
  /\ storage' = Null /\ token' = Null /\ user' = Null
  /\ UNCHANGED <<clientAuth, depsToken, mePending>>
  /\ UNCHANGED <<userOps, startToken, startupMe, solo>>
  /\ UNCHANGED panelVars

\* api.post('/auth/login') rejected: the await throws and login() rejects.
LoginFail ==
  /\ loginPending > 0
  /\ loginPending' = loginPending - 1
  /\ last' = "loginRejected"
  /\ UNCHANGED <<storage, token, user, clientAuth, depsToken, mePending>>
  /\ UNCHANGED <<userOps, startToken, startupMe, solo>>
  /\ UNCHANGED panelVars

\* LogoutBody without its setUser(null).
LogoutBodyKeepsUser ==
  /\ storage' = Null
  /\ token' = Null
  /\ user' = user

\* What logout() reads and writes: the stored token, the Credential, the Identity.
SessionState == [storage |-> storage, token |-> token, user |-> user]

\* logout() that sets the Credential to the stored token it is about to remove.
LogoutStateReadsBack(s) == [storage |-> Null, token |-> s.storage, user |-> Null]

\* localStorage.removeItem('token'); setToken(null); setUser(null), on a state s.
LogoutState(s) == [s EXCEPT !.storage = Null, !.token = Null, !.user = Null]

\* function logout() { localStorage.removeItem('token'); setToken(null); setUser(null) }
LogoutBody ==
  LET s == LogoutState(SessionState)
  IN  /\ storage' = s.storage
      /\ token' = s.token
      /\ user' = s.user

\* logout() called by the application.
Logout ==
  /\ depsToken # NotMounted
  /\ LogoutBody
  /\ userOps' = TRUE
  /\ startupMe' = 0
  /\ solo' = Null
  /\ last' = "logout"
  /\ UNCHANGED <<clientAuth, depsToken, loginPending, mePending>>
  /\ UNCHANGED startToken
  /\ UNCHANGED panelVars

\* MeOk without its setUser(r.data).
MeOkDropsData(t) ==
  /\ mePending[t] > 0
  /\ user' = user
  /\ mePending' = [mePending EXCEPT ![t] = @ - 1]
  /\ last' = "meOk"
  /\ UNCHANGED <<storage, token, clientAuth, depsToken, loginPending>>
  /\ UNCHANGED <<userOps, startToken, startupMe, solo>>
  /\ UNCHANGED panelVars

\* .then(r => setUser(r.data)) of a GET /auth/me sent with bearer token t.
MeOk(t) ==
  /\ mePending[t] > 0
  /\ user' = IdOf(t)
  /\ mePending' = [mePending EXCEPT ![t] = @ - 1]
  /\ last' = "meOk"
  /\ UNCHANGED <<storage, token, clientAuth, depsToken, loginPending>>
  /\ UNCHANGED <<userOps, startToken, startupMe, solo>>
  /\ UNCHANGED panelVars

\* MeFail with a catch that swallows the failure and does not log out.
MeFailSwallowed(t) ==
  /\ mePending[t] > 0
  /\ UNCHANGED <<storage, token, user>>
  /\ mePending' = [mePending EXCEPT ![t] = @ - 1]
  /\ solo' = Null
  /\ last' = IF t = token THEN "meFailCurrent" ELSE "meFailStale"
  /\ UNCHANGED <<clientAuth, depsToken, loginPending>>
  /\ UNCHANGED <<userOps, startToken, startupMe>>
  /\ UNCHANGED panelVars

\* .catch(() => logout()) of a GET /auth/me sent with bearer token t.
MeFail(t) ==
  /\ mePending[t] > 0
  /\ LogoutBody
  /\ mePending' = [mePending EXCEPT ![t] = @ - 1]
  /\ solo' = Null
  /\ last' = IF t = token THEN "meFailCurrent" ELSE "meFailStale"
  /\ UNCHANGED <<clientAuth, depsToken, loginPending>>
  /\ UNCHANGED <<userOps, startToken, startupMe>>
  /\ UNCHANGED panelVars

SessionNext ==
  \/ Effect
  \/ LoginCall
  \/ \E t \in Tokens : LoginOk(t)
  \/ LoginFail
  \/ Logout
  \/ \E t \in Tokens : MeOk(t)
  \/ \E t \in Tokens : MeFail(t)

\* ------------------------------------------------------------------ panels

\* onClick={() => setTab(t)}: the other panel is mounted afresh, and requests
\* of the unmounted one stay in flight with nobody to answer to.
SetTab(t) ==
  /\ depsToken # NotMounted
  /\ t # tab
  /\ chatOrphan + chatLive <= MaxOrphan
  /\ upOrphan + Len(upLive) <= MaxOrphan
  /\ tab' = t
  /\ chatOrphan' = chatOrphan + chatLive
  /\ upOrphan' = upOrphan + Len(upLive)
  /\ q' = "hola" /\ loading' = FALSE /\ msgs' = <<>> /\ chatLive' = 0
  /\ file' = NoFile /\ status' = "" /\ upLive' = <<>>
  /\ UNCHANGED <<sessionVars, historyVars>>

\* onChange={(e) => setQ(e.target.value)}
SetQ(v) ==
  /\ depsToken # NotMounted
  /\ tab = "chat"
  /\ q' = v
  /\ UNCHANGED <<loading, msgs, chatLive, tab, chatOrphan, dataVars, upOrphan>>
  /\ UNCHANGED <<sessionVars, historyVars>>

\* Send without its if (!q.trim()) return.
SendAllowsBlank ==
  /\ depsToken # NotMounted
  /\ tab = "chat"
  /\ ~loading
  /\ Len(msgs) + 2 <= MaxMsgs
  /\ msgs' = Append(msgs, Msg("user", q))
  /\ q' = ""
  /\ loading' = TRUE
  /\ chatLive' = chatLive + 1
  /\ UNCHANGED <<tab, chatOrphan, dataVars, upOrphan>>
  /\ UNCHANGED <<sessionVars, historyVars>>

\* send() up to its await, from the button (disabled={loading}).
Send ==
  /\ depsToken # NotMounted
  /\ tab = "chat"
  /\ ~loading
  /\ Len(msgs) + 2 <= MaxMsgs
  /\ IF Trim(q) = ""
     THEN UNCHANGED chatVars
     ELSE /\ msgs' = Append(msgs, Msg("user", q))
          /\ q' = ""
          /\ loading' = TRUE
          /\ chatLive' = chatLive + 1
  /\ UNCHANGED <<tab, chatOrphan, dataVars, upOrphan>>
  /\ UNCHANGED <<sessionVars, historyVars>>

\* The rest of send() after api.post("/chat/ask") resolved.
ChatOk ==
  /\ tab = "chat"
  /\ chatLive > 0
  /\ msgs' = Append(msgs, Msg("assistant", "answer"))
  /\ loading' = FALSE
  /\ chatLive' = chatLive - 1
  /\ UNCHANGED <<q, tab, chatOrphan, dataVars, upOrphan>>
  /\ UNCHANGED <<sessionVars, historyVars>>

\* ChatErr without the finally that resets loading.
ChatErrNoFinally ==
  /\ tab = "chat"
  /\ chatLive > 0
  /\ msgs' = Append(msgs, Msg("assistant", ErrText))
  /\ loading' = loading
  /\ chatLive' = chatLive - 1
  /\ UNCHANGED <<q, tab, chatOrphan, dataVars, upOrphan>>
  /\ UNCHANGED <<sessionVars, historyVars>>

\* UploadErr with a catch that also ends the session.
UploadErrLogsOut(i) ==
  /\ tab = "datos"
  /\ i \in 1..Len(upLive)
  /\ status' = ErrStatus
  /\ upLive' = SubSeq(upLive, 1, i - 1) \o SubSeq(upLive, i + 1, Len(upLive))
  /\ storage' = Null /\ token' = Null /\ user' = Null
  /\ UNCHANGED <<clientAuth, depsToken, loginPending, mePending>>
  /\ UNCHANGED <<file, tab, chatVars, chatOrphan, upOrphan>>
  /\ UNCHANGED historyVars

\* The catch and finally of send() after api.post("/chat/ask") rejected.
ChatErr ==
  /\ tab = "chat"
  /\ chatLive > 0
  /\ msgs' = Append(msgs, Msg("assistant", ErrText))
  /\ loading' = FALSE
  /\ chatLive' = chatLive - 1
  /\ UNCHANGED <<q, tab, chatOrphan, dataVars, upOrphan>>
  /\ UNCHANGED <<sessionVars, historyVars>>

\* A /chat/ask answered after its ChatPanel was unmounted: its setters do nothing.
ChatOrphanDone ==
  /\ chatOrphan > 0
  /\ chatOrphan' = chatOrphan - 1
  /\ UNCHANGED <<tab, chatVars, dataVars, upOrphan>>
  /\ UNCHANGED <<sessionVars, historyVars>>

\* onChange={(e) => setFile(e.target.files?.[0] || null)}
SetFile(f) ==
  /\ depsToken # NotMounted
  /\ tab = "datos"
  /\ file' = f
  /\ UNCHANGED <<status, upLive, tab, chatVars, chatOrphan, upOrphan>>
  /\ UNCHANGED <<sessionVars, historyVars>>

\* upload() up to its await.
Upload ==
  /\ depsToken # NotMounted
  /\ tab = "datos"
  /\ Len(upLive) < MaxUp
  /\ IF file = NoFile
     THEN UNCHANGED <<status, upLive>>
     ELSE /\ status' = Uploading
          /\ upLive' = Append(upLive, file)
  /\ UNCHANGED <<file, tab, chatVars, chatOrphan, upOrphan>>
  /\ UNCHANGED <<sessionVars, historyVars>>

\* upLive without its i-th request.
Without(s, i) == SubSeq(s, 1, i - 1) \o SubSeq(s, i + 1, Len(s))

\* The rest of upload() after the i-th request in flight resolved.
UploadOk(i) ==
  /\ tab = "datos"
  /\ i \in 1..Len(upLive)
  /\ status' = OkStatus(upLive[i])
  /\ upLive' = Without(upLive, i)
  /\ UNCHANGED <<file, tab, chatVars, chatOrphan, upOrphan>>
  /\ UNCHANGED <<sessionVars, historyVars>>

\* The catch of upload() after the i-th request in flight rejected.
UploadErr(i) ==
  /\ tab = "datos"
  /\ i \in 1..Len(upLive)
  /\ status' = ErrStatus
  /\ upLive' = Without(upLive, i)
  /\ UNCHANGED <<file, tab, chatVars, chatOrphan, upOrphan>>
  /\ UNCHANGED <<sessionVars, historyVars>>

\* A /vs/upload answered after its DataPanel was unmounted: its setter does nothing.
UploadOrphanDone ==
  /\ upOrphan > 0
  /\ upOrphan' = upOrphan - 1
  /\ UNCHANGED <<tab, chatVars, chatOrphan, dataVars>>
  /\ UNCHANGED <<sessionVars, historyVars>>

PanelNext ==
  \/ \E t \in {"chat", "datos"} : SetTab(t)
  \/ \E v \in Inputs : SetQ(v)
  \/ Send
  \/ ChatOk
  \/ ChatErr
  \/ ChatOrphanDone
  \/ \E f \in Files \cup {NoFile} : SetFile(f)
  \/ Upload
  \/ \E i \in 1..MaxUp : UploadOk(i)
  \/ \E i \in 1..MaxUp : UploadErr(i)
  \/ UploadOrphanDone

Next == SessionNext \/ PanelNext

Spec == Init /\ [][Next]_vars

\* The session layer alone, with the scheduling React and the HTTP client give:
\* a pending effect runs, and every request in flight is answered.
SessionFairness ==
  /\ WF_vars(Effect)
  /\ WF_vars(\E t \in Tokens : LoginOk(t) \/ LoginFail)
  /\ \A t \in Tokens : WF_vars(MeOk(t) \/ MeFail(t))

SessionSpec == Init /\ [][SessionNext]_vars /\ SessionFairness

\* The panels alone, once the provider has mounted and run its effect.
PanelSpecNext == Effect \/ PanelNext

PanelSpec == Init /\ [][PanelSpecNext]_vars

\* ------------------------------------------------------------------ claims

\* A request goes out from a handler (login, chat send, upload) in this step.
HandlerSends ==
  \/ loginPending' > loginPending
  \/ chatLive' > chatLive
  \/ Len(upLive') > Len(upLive)

\* The effect sends GET /auth/me in this step.
EffectSends == \E t \in Tokens : mePending'[t] > mePending[t]

\* C1: every request is sent while the shared client's authorization equals
\* the current Credential: a handler's request with the authorization the
\* client holds when the handler runs, the identity fetch with the one the
\* effect has just set.  Stated for the Credential as restored at startup or
\* as last changed by the continuation of a request (login success,
\* identity-refresh failure), which React renders afterwards; the change
\* made by a logout() the application has just called is left out of it.
C1_HeaderBeforeRequest ==
  [][ /\ (HandlerSends /\ last # "logout") => clientAuth = token
      /\ EffectSends => clientAuth' = token' ]_vars

\* C2: a non-null Identity comes with a non-null Credential and is the
\* identity of that Credential, never that of an earlier token.
C2_IdentityOfCredential ==
  user # Null => (token # Null /\ user = IdOf(token))

\* C3: when the identity fetch made for the current Credential fails, the
\* Credential, the Identity and the stored token are cleared at once, and the
\* session goes on to LoggedOut, authorization cleared, unless another handler
\* or continuation of the session runs first.
C3_FailedRefreshLogsOut ==
  /\ [](last = "meFailCurrent" => token = Null /\ user = Null /\ storage = Null)
  /\ (last = "meFailCurrent") ~> (LoggedOut \/ last # "meFailCurrent")

C3_Witness ==
  /\ last = "meFailCurrent" /\ LoggedOut /\ Quiescent
  /\ startToken = "tok1" /\ ~userOps

\* C4: a login accepted with token t from a clean LoggedOut puts the session
\* in Restoring (Credential and storage t, Identity null) and, when nothing
\* else is called and the identity fetch does not fail, leads to LoggedIn
\* with Credential, storage and authorization t and the identity of t.
C4_LoginReachesLoggedIn ==
  /\ [](\A t \in Tokens : solo = t =>
          token = t /\ storage = t /\ user \in {Null, IdOf(t)})
  /\ [][\A t \in Tokens : (solo # t /\ solo' = t) => user' = Null]_vars
  /\ \A t \in Tokens : (solo = t) ~> (LoggedIn(t) \/ solo = Null)

C4_Witness == solo = "tok1" /\ LoggedIn("tok1") /\ Quiescent

\* C5: until the application calls login() or logout(): with an empty
\* storage the session is LoggedOut and no identity request is sent; with a
\* stored token it starts in Restoring, sends exactly one identity request
\* when the provider mounts, and reaches LoggedIn with the token still
\* stored unless that request fails.
C5_StartFromStorage ==
  /\ []((~userOps /\ startToken = Null) =>
          token = Null /\ user = Null /\ storage = Null
          /\ startupMe = 0 /\ MeCount = 0)
  /\ []((~userOps /\ startToken # Null /\ depsToken = NotMounted) =>
          token = startToken /\ user = Null /\ startupMe = 0)
  /\ []((~userOps /\ startToken # Null /\ depsToken # NotMounted) =>
          startupMe = 1)
  /\ \A t \in Tokens :
       (~userOps /\ startToken = t) ~> (LoggedIn(t) \/ userOps \/ token = Null)

C5_Witness ==
  ~userOps /\ startToken = "tok1" /\ LoggedIn("tok1") /\ startupMe = 1 /\ Quiescent

\* C6: a login() whose request fails rejects and changes nothing: the
\* Credential, the Identity, the stored token and the client's authorization
\* stay as they are, and no request is sent in its place.
C6_FailedLoginChangesNothing ==
  [][ (loginPending' < loginPending /\ last' = "loginRejected") =>
        /\ UNCHANGED <<storage, token, user, clientAuth>>
        /\ loginPending' = loginPending - 1
        /\ mePending' = mePending ]_vars

C6_Witness == last = "loginRejected" /\ LoggedOut /\ Quiescent

\* C7: after logout(), whatever was in flight, the Credential, the Identity
\* and the stored token are null, and neither logout() nor the effect that
\* follows it sends a request.
C7_LogoutClearsWithoutRequest ==
  /\ [](last = "logout" => token = Null /\ user = Null /\ storage = Null)
  /\ [][last' = "logout" =>
          loginPending' = loginPending /\ mePending' = mePending]_vars

C7_Witness ==
  /\ last = "logout" /\ loginPending > 0 /\ MeCount > 0
  /\ depsToken = Null /\ clientAuth = Null

\* C8: once every request has completed, a non-null Identity is the identity
\* of the final Credential, not that of a superseded token.
C8_FinalIdentityIsOfFinalCredential ==
  (Quiescent /\ token # Null /\ user # Null) => user = IdOf(token)

\* C9: at most one login request and at most one identity request are in
\* flight.
C9_SingleFlight == loginPending <= 1 /\ MeCount <= 1

\* C10: with nothing in flight and no effect pending the session is in
\* LoggedOut or in LoggedIn.
C10_RestStates ==
  Quiescent => (LoggedOut \/ \E t \in Tokens : LoggedIn(t))

\* C11: logout() is idempotent: logging out of a logged-out state changes
\* nothing, two logout() in a row leave what one leaves, and once the effect
\* has run after logout() the session is LoggedOut, authorization unset.
C11_LogoutIdempotent ==
  LET s == SessionState
  IN  /\ LogoutState(LogoutState(s)) = LogoutState(s)
      /\ (s.storage = Null /\ s.token = Null /\ s.user = Null) => LogoutState(s) = s
      /\ (last = "logout" /\ depsToken = token) => LoggedOut

C11_Witness ==
  last = "logout" /\ LoggedOut /\ Quiescent /\ startToken = "tok1"

\* C12: the stored token and the Credential are equal in every state, and a
\* login that succeeds leaves both at the token of its own answer, whatever
\* other login is still in flight or has succeeded before.
C12_StorageIsCredential ==
  /\ [](storage = token)
  /\ [][(loginPending' < loginPending /\ last' = "loginResolved") =>
          (token' \in Tokens /\ storage' = token')]_vars

C12_Witness ==
  /\ last = "loginResolved" /\ token = "tok2" /\ storage = "tok2"
  /\ startToken = Null /\ mePending["tok1"] = 1

\* C13: an identity request is sent exactly when the Credential changes to
\* a non-empty value: every such change leaves the effect to run for the new
\* value, the effect sends the request for it after setting the client's
\* authorization to it, and the effect sends nothing for a null Credential.
\* The first part is stated for a change that follows the continuation of
\* another request directly, with no call of the application in between.
C13_RequestPerCredentialChange ==
  [][ /\ (token' # token /\ token' # Null /\ last \notin {"login", "logout"})
           => depsToken' # token'
      /\ EffectSends =>
           /\ token # Null /\ clientAuth' = token
           /\ mePending'[token] = mePending[token] + 1
      /\ (depsToken' # depsToken /\ token = Null) => mePending' = mePending ]_vars

\* C14: the failure of an identity fetch sent for a token that is no longer
\* the Credential leaves the Credential, the Identity and the stored token
\* as they are.
C14_StaleFailureChangesNothing ==
  [][ (last' = "meFailStale" /\ mePending' # mePending) =>
        UNCHANGED <<storage, token, user>> ]_vars

\* C15: at most one /chat/ask and at most one /vs/upload are in flight,
\* counting the requests whose panel has been unmounted since.
C15_OneRequestPerAction ==
  chatLive + chatOrphan <= 1 /\ Len(upLive) + upOrphan <= 1

\* C16: the transcript alternates user, assistant from a user message on;
\* its last message is an unanswered question exactly while the request of
\* the panel is in flight; a request goes out only with a non-blank question,
\* appended as one user message, and its completion appends one assistant
\* message; no other step changes the transcript of a mounted panel.
C16_TranscriptWellFormed ==
  /\ [](/\ \A i \in 1..Len(msgs) :
             /\ msgs[i].role = IF i % 2 = 1 THEN "user" ELSE "assistant"
             /\ msgs[i].role = "user" => Trim(msgs[i].text) # ""
         /\ chatLive <= 1
         /\ (Len(msgs) % 2 = 1) <=> (chatLive = 1))
  /\ [][ /\ chatLive' > chatLive =>
              (Trim(q) # "" /\ msgs' = Append(msgs, Msg("user", q)))
         /\ (chatLive' < chatLive /\ tab' = tab) =>
              /\ Len(msgs') = Len(msgs) + 1
              /\ SubSeq(msgs', 1, Len(msgs)) = msgs
              /\ msgs'[Len(msgs')].role = "assistant"
         /\ (chatLive' = chatLive /\ tab' = tab) => msgs' = msgs ]_vars

C16_Witness ==
  /\ Len(msgs) = 4 /\ chatLive = 0
  /\ msgs[2].text = ErrText /\ msgs[4].text = "answer"

\* C17: the completion of a /chat/ask, failed or not, appends one assistant
\* message and resets loading, a failed one the message that begins with
\* "Error:"; loading is true exactly while the request of the panel is in
\* flight, so sending is enabled again after every completion.
C17_FailureBecomesMessage ==
  /\ [](loading <=> chatLive > 0)
  /\ [][ /\ (chatLive' < chatLive /\ tab' = tab) =>
              /\ ~loading'
              /\ msgs'[Len(msgs')] \in {Msg("assistant", "answer"),
                                        Msg("assistant", ErrText)}
         /\ ChatErr => msgs' = Append(msgs, Msg("assistant", ErrText)) ]_vars

C17_Witness ==
  /\ tab = "chat" /\ ~loading /\ chatLive = 0
  /\ Len(msgs) = 2 /\ msgs[2] = Msg("assistant", ErrText)

\* C18: without a file upload() sends nothing and leaves the status; with
\* one the status reads "Subiendo..." for as long as an upload of the panel
\* is in flight.
C18_StatusTracksUpload ==
  Len(upLive) > 0 => status = Uploading

\* C19: a step of the panels (a handler or the completion of one of their
\* requests) leaves the Credential, the Identity, the stored token and the
\* client's default authorization as they are, and neither call passes an
\* Authorization header of its own.
C19_PanelsLeaveSession ==
  /\ []("Authorization" \notin SendHeaders \cup UploadHeaders)
  /\ [][panelVars' # panelVars =>
          UNCHANGED <<storage, token, user, clientAuth>>]_vars

C19_Witness ==
  /\ token = "tok1" /\ storage = "tok1" /\ clientAuth = "tok1"
  /\ tab = "datos" /\ status = ErrStatus /\ upLive = <<>> /\ chatOrphan = 1

====
